---- MODULE Spec2Model ----
(***************************************************************************)
(* Model of pkg/remotewrite/remotewrite.go: the Prometheus remote write    *)
(* output.  Samples are buffered by producers, drained by the periodic     *)
(* flusher, aggregated per time series into the tsdb map and the series    *)
(* that advanced are converted to wire time series and handed to Store.    *)
(***************************************************************************)
EXTENDS Integers, Sequences, FiniteSets, TLC

\* ------------------------------------------------------------------ bounds
\* Samples handed to AddMetricSamples over a whole run.
MaxSamples == 3
\* Samples the buffer holds at a time, a container without samples counting
\* as one.
MaxBuffer == 2

\* time.Millisecond, in clock ticks: the clock is finer than a millisecond.
Millisecond == 2

\* sample times, in clock ticks: two in the first millisecond, one in the next
Times == {0, 1, 2}
\* sample values: zero and non-zero
Values == {0, 1}

\* ------------------------------------------------------------- data model
\* metrics.MetricType: the four kinds the sink factory knows.
MetricTypes == {"Counter", "Gauge", "Rate", "Trend"}

\* metrics.TimeSeries: the identity of a series (metric name and kind).
OtherType == "Other"
Series == [Name : {"m", "n"}, Type : MetricTypes \cup {OtherType}]

\* metrics.Sample
Samples == [TimeSeries : Series, Time : Times, Value : Values]

\* time.Time.Truncate(d): round down to a multiple of d.
NoTruncate(t, d) == t
TruncateRemainder(t, d) == t % d
Truncate(t, d) == t - (t % d)

\* time.Time.After
After(t, u) == t > u

\* time.Time.UnixMilli
UnixMilli(t) == t \div Millisecond

RECURSIVE SumSeq(_)
SumSeq(s) == IF s = <<>> THEN 0 ELSE Head(s) + SumSeq(Tail(s))

RECURSIVE Flatten(_)
\* all samples of a list of containers, in arrival order
FirstContainer(cs) == IF cs = <<>> THEN <<>> ELSE Head(cs)
Flatten(cs) == IF cs = <<>> THEN <<>> ELSE Head(cs) \o Flatten(Tail(cs))

\* ------------------------------------------------------------------ sinks
CounterSink == [sink |-> "CounterSink", Value |-> 0]
GaugeSink == [sink |-> "GaugeSink", Value |-> 0]
RateSink == [sink |-> "RateSink", Trues |-> 0, Total |-> 0]

\* newExtendedTrendSink(tsr): fails on an empty resolver
newExtendedTrendSink(tsr) ==
    IF Cardinality(tsr) < 1
    THEN [err |-> TRUE, sink |-> CounterSink]
    ELSE [err |-> FALSE,
          sink |-> [sink |-> "extendedTrendSink", Values |-> <<>>, trendStats |-> tsr]]

\* newNativeHistogramSink
newNativeHistogramSink ==
    [sink |-> "nativeHistogramSink", Count |-> 0, Sum |-> 0, ZeroCount |-> 0]

\* insertion of v in a sorted sequence
RECURSIVE InsertSorted(_, _)
InsertSorted(s, v) ==
    IF s = <<>> THEN <<v>>
    ELSE IF v <= Head(s) THEN <<v>> \o s
    ELSE <<Head(s)>> \o InsertSorted(Tail(s), v)

\* metrics.Sink.Add, by sink variant
Add(m, sample) ==
    CASE m.sink = "CounterSink" -> [m EXCEPT !.Value = @ + sample.Value]
      [] m.sink = "GaugeSink" -> [m EXCEPT !.Value = sample.Value]
      [] m.sink = "RateSink" ->
            [m EXCEPT !.Total = @ + 1,
                      !.Trues = IF sample.Value # 0 THEN @ + 1 ELSE @]
      [] m.sink = "extendedTrendSink" ->
            [m EXCEPT !.Values = InsertSorted(@, sample.Value)]
      [] m.sink = "nativeHistogramSink" ->
            [m EXCEPT !.Count = @ + 1, !.Sum = @ + sample.Value,
                      !.ZeroCount = IF sample.Value = 0 THEN @ + 1 ELSE @]

\* RateSink.Format(0)["rate"]: Trues/Total as a fraction, 0 when Total is 0
RateFormat(m) == IF m.Total = 0 THEN <<0, 1>> ELSE <<m.Trues, m.Total>>

\* ------------------------------------------------------- sink factory
\* newSeriesWithMeasure: the sink of a new series, or a panic
newSeriesWithMeasureDefault(series, trendAsNativeHistogram, tsr) ==
    CASE series.Type = "Gauge" -> [panic |-> FALSE, Measure |-> GaugeSink]
      [] series.Type = "Trend" ->
            IF trendAsNativeHistogram
            THEN [panic |-> FALSE, Measure |-> newNativeHistogramSink]
            ELSE LET r == newExtendedTrendSink(tsr)
                 IN  [panic |-> r.err, Measure |-> r.sink]
      [] series.Type = "Rate" -> [panic |-> FALSE, Measure |-> RateSink]
      [] OTHER -> [panic |-> FALSE, Measure |-> CounterSink]
newSeriesWithMeasureSwapped(series, trendAsNativeHistogram, tsr) ==
    IF series.Type = "Rate" THEN [panic |-> FALSE, Measure |-> GaugeSink]
    ELSE newSeriesWithMeasureDefault(series, trendAsNativeHistogram, tsr)
newSeriesWithMeasure(series, trendAsNativeHistogram, tsr) ==
    CASE series.Type = "Counter" -> [panic |-> FALSE, Measure |-> CounterSink]
      [] series.Type = "Gauge" -> [panic |-> FALSE, Measure |-> GaugeSink]
      [] series.Type = "Trend" ->
            IF trendAsNativeHistogram
            THEN [panic |-> FALSE, Measure |-> newNativeHistogramSink]
            ELSE LET r == newExtendedTrendSink(tsr)
                 IN  [panic |-> r.err, Measure |-> r.sink]
      [] series.Type = "Rate" -> [panic |-> FALSE, Measure |-> RateSink]
      [] OTHER -> [panic |-> TRUE, Measure |-> CounterSink]

\* -------------------------------------------------------------- encoder
\* MapSeries(series, suffix): the labels of a wire series; the metric name
\* label is the base name qualified by the suffix.
MapSeries(series, suffix) == [series |-> series, suffix |-> suffix]

\* mapMonoSeries: a wire series holding one sample at t, value still unset
mapMonoSeries(s, t) ==
    [Labels |-> MapSeries(s, ""),
     Samples |-> <<[Timestamp |-> UnixMilli(t), Value |-> 0]>>,
     Histograms |-> <<>>]

\* the statistics a trend sink can resolve, in the order they are written
StatOrder == <<"count", "min", "max", "sum">>

\* the resolver functions of the trend statistics, on the sorted values
StatValue(stat, values) ==
    CASE stat = "count" -> Len(values)
      [] stat = "min" -> IF values = <<>> THEN 0 ELSE values[1]
      [] stat = "max" -> IF values = <<>> THEN 0 ELSE values[Len(values)]
      [] stat = "sum" -> SumSeq(values)

RECURSIVE TrendStatSeries(_, _, _, _)
\* extendedTrendSink.MapPrompb: one wire series per resolved statistic
TrendStatSeries(stats, sink, series, t) ==
    IF stats = <<>> THEN <<>>
    ELSE (IF Head(stats) \in sink.trendStats
          THEN <<[Labels |-> MapSeries(series, Head(stats)),
                  Samples |-> <<[Timestamp |-> UnixMilli(t),
                                 Value |-> StatValue(Head(stats), sink.Values)]>>,
                  Histograms |-> <<>>]>>
          ELSE <<>>) \o TrendStatSeries(Tail(stats), sink, series, t)

\* nativeHistogramSink.MapPrompb: one wire series holding one histogram
NativeHistogramSeries(sink, series, t) ==
    <<[Labels |-> MapSeries(series, ""),
       Samples |-> <<>>,
       Histograms |-> <<[Timestamp |-> UnixMilli(t), Count |-> sink.Count,
                         Sum |-> sink.Sum, ZeroCount |-> sink.ZeroCount]>>]>>

\* a wire series like ts whose only sample holds the value v
WithValue(ts, v) == [ts EXCEPT !.Samples = <<[@[1] EXCEPT !.Value = v]>>]

\* seriesWithMeasure.MapPrompb: the wire series of one table entry, or a
\* panic on a kind or a sink it does not recognise
MapPrompb(swm) ==
    CASE swm.TimeSeries.Type = "Counter" ->
            IF swm.Measure.sink # "CounterSink"
            THEN [panic |-> TRUE, newts |-> <<>>]
            ELSE [panic |-> FALSE,
                  newts |-> <<WithValue(mapMonoSeries(swm.TimeSeries, swm.Latest),
                                        swm.Measure.Value)>>]
      [] swm.TimeSeries.Type = "Gauge" ->
            IF swm.Measure.sink # "GaugeSink"
            THEN [panic |-> TRUE, newts |-> <<>>]
            ELSE [panic |-> FALSE,
                  newts |-> <<WithValue(mapMonoSeries(swm.TimeSeries, swm.Latest),
                                        swm.Measure.Value)>>]
      [] swm.TimeSeries.Type = "Rate" ->
            IF swm.Measure.sink # "RateSink"
            THEN [panic |-> TRUE, newts |-> <<>>]
            ELSE [panic |-> FALSE,
                  newts |-> <<WithValue(mapMonoSeries(swm.TimeSeries, swm.Latest),
                                        RateFormat(swm.Measure))>>]
      [] swm.TimeSeries.Type = "Trend" ->
            IF swm.Measure.sink = "extendedTrendSink"
            THEN [panic |-> FALSE,
                  newts |-> TrendStatSeries(StatOrder, swm.Measure,
                                            swm.TimeSeries, swm.Latest)]
            ELSE IF swm.Measure.sink = "nativeHistogramSink"
            THEN [panic |-> FALSE,
                  newts |-> NativeHistogramSeries(swm.Measure, swm.TimeSeries,
                                                  swm.Latest)]
            ELSE [panic |-> TRUE, newts |-> <<>>]
      [] OTHER -> [panic |-> TRUE, newts |-> <<>>]

\* ---------------------------------------------------- aggregation engine
\* the table entry of a series seen for the first time (lines 195-196)
NewEntry(sink, series, truncTime) ==
    [TimeSeries |-> series, Measure |-> sink, Latest |-> truncTime]

\* whether a sample of an existing series marks it as seen (line 203)
AdvancesOrEqual(truncTime, latest) == truncTime >= latest
Advances(truncTime, latest) == After(truncTime, latest)

\* the sink of the kind of m, as new
ResetSink(m) ==
    CASE m.sink = "CounterSink" -> CounterSink
      [] m.sink = "GaugeSink" -> GaugeSink
      [] m.sink = "RateSink" -> RateSink
      [] OTHER -> m

\* the entry of an existing series after the time comparison (lines 203-206)
UpdateLatestAlways(swm, truncTime) == [swm EXCEPT !.Latest = truncTime]
UpdateLatestReset(swm, truncTime) ==
    IF Advances(truncTime, swm.Latest)
    THEN [swm EXCEPT !.Latest = truncTime, !.Measure = ResetSink(@)]
    ELSE swm
UpdateLatest(swm, truncTime) ==
    IF Advances(truncTime, swm.Latest)
    THEN [swm EXCEPT !.Latest = truncTime]
    ELSE swm

\* swm.Measure.Add(sample) (line 227)
MergeSampleNewer(swm, sample) ==
    IF Truncate(sample.Time, Millisecond) < swm.Latest
    THEN swm
    ELSE [swm EXCEPT !.Measure = Add(@, sample)]
MergeSample(swm, sample) == [swm EXCEPT !.Measure = Add(@, sample)]

\* seen[sample.TimeSeries] = struct{}{}: seen holds each key once
MarkSeenAppend(seen, ts) == Append(seen, ts)
MarkSeen(seen, ts) ==
    IF \E i \in 1..Len(seen) : seen[i] = ts THEN seen ELSE Append(seen, ts)

\* one iteration of the loop over the samples (lines 190-228). st holds the
\* table, the seen map and whether a panic stopped the loop.
ProcessSampleAddIfKnown(st, sample, trendAsNativeHistogram, tsr) ==
    LET truncTime == Truncate(sample.Time, Millisecond)
        ts == sample.TimeSeries
    IN  IF st.panicked THEN st
        ELSE IF ts \notin DOMAIN st.tsdb
        THEN LET r == newSeriesWithMeasure(ts, trendAsNativeHistogram, tsr)
             IN  IF r.panic THEN [st EXCEPT !.panicked = TRUE]
                 ELSE [st EXCEPT
                         !.tsdb = (ts :> NewEntry(r.Measure, ts, truncTime)) @@ st.tsdb,
                         !.seen = MarkSeen(@, ts)]
        ELSE LET swm == st.tsdb[ts]
             IN  [st EXCEPT
                     !.tsdb = [@ EXCEPT ![ts] =
                                 MergeSample(UpdateLatest(swm, truncTime), sample)],
                     !.seen = IF Advances(truncTime, swm.Latest)
                              THEN MarkSeen(@, ts) ELSE @]
ProcessSample(st, sample, trendAsNativeHistogram, tsr) ==
    LET truncTime == Truncate(sample.Time, Millisecond)
        ts == sample.TimeSeries
    IN  IF st.panicked THEN st
        ELSE IF ts \notin DOMAIN st.tsdb
        THEN LET r == newSeriesWithMeasure(ts, trendAsNativeHistogram, tsr)
             IN  IF r.panic THEN [st EXCEPT !.panicked = TRUE]
                 ELSE [st EXCEPT
                         !.tsdb = (ts :> MergeSample(
                                      NewEntry(r.Measure, ts, truncTime), sample))
                                  @@ st.tsdb,
                         !.seen = MarkSeen(@, ts)]
        ELSE LET swm == st.tsdb[ts]
             IN  [st EXCEPT
                     !.tsdb = [@ EXCEPT ![ts] =
                                 MergeSample(UpdateLatest(swm, truncTime), sample)],
                     !.seen = IF Advances(truncTime, swm.Latest)
                              THEN MarkSeen(@, ts) ELSE @]

RECURSIVE ProcessSamples(_, _, _, _)
\* the loops over the containers and their samples (lines 187-229)
ProcessSamples(st, samples, trendAsNativeHistogram, tsr) ==
    IF samples = <<>> THEN st
    ELSE ProcessSamples(ProcessSample(st, Head(samples), trendAsNativeHistogram, tsr),
                        Tail(samples), trendAsNativeHistogram, tsr)

RECURSIVE MapAll(_, _)
\* the loop over the seen map, in the order the map iteration takes
\* (lines 231-234)
MapAll(table, order) ==
    IF order = <<>> THEN [panic |-> FALSE, pbseries |-> <<>>]
    ELSE LET m == MapPrompb(table[Head(order)])
             rest == MapAll(table, Tail(order))
         IN  [panic |-> m.panic \/ rest.panic,
              pbseries |-> m.newts \o rest.pbseries]

\* the orders in which the iteration over a map holding the keys s can run
IterationOrders(s) ==
    {[i \in 1..Len(s) |-> s[p[i]]] :
        p \in {q \in [1..Len(s) -> 1..Len(s)] :
                 \A i, j \in 1..Len(s) : q[i] = q[j] => i = j}}

\* convertToPbSeries up to the end of the loops over the samples
Aggregate(table, samplesContainers, trendAsNativeHistogram, tsr) ==
    ProcessSamples([tsdb |-> table, seen |-> <<>>, panicked |-> FALSE],
                   Flatten(samplesContainers), trendAsNativeHistogram, tsr)

\* ------------------------------------------------------------------ state
VARIABLES
    registry,           \* the series the test run emits samples of
    buffer,             \* output.SampleBuffer: the buffered sample containers
    tsdb,               \* o.tsdb: series -> seriesWithMeasure
    config,             \* o.config
    trendStatsResolver, \* o.trendStatsResolver: the keys of the resolver table
    panicked,           \* whether a panic has aborted the process
    logger,             \* the messages logged by the latest flush
    promTimeSeries,     \* what the latest flush of a non-empty buffer converted
    stored,             \* the calls of client.Store that flush made
    sent,               \* the points handed to Store so far
    merged,             \* the samples drained so far, summed up by series
    periodicFlusher,    \* o.periodicFlusher: the goroutines that call flush
    stop,               \* whether Stop has asked the periodic flusher to stop
    newErr              \* the error of New: "unset" before New returns, then
                        \* "nil" or "error"

vars == <<registry, buffer, tsdb, config, trendStatsResolver, panicked, logger,
          promTimeSeries, stored, sent, merged, periodicFlusher, stop, newErr>>

\* the configurations the output is constructed with
ClassicConfig == [TrendAsNativeHistogram |-> FALSE, TrendStats |-> <<"min", "max">>]
NativeConfig == [TrendAsNativeHistogram |-> TRUE, TrendStats |-> <<"sum">>]

\* the test runs: the series a run emits samples of and the configuration
\* of the output
Runs ==
    {[registry |-> {[Name |-> "m", Type |-> t]}, config |-> ClassicConfig] :
        t \in MetricTypes}
    \cup {[registry |-> {[Name |-> "m", Type |-> "Trend"]}, config |-> NativeConfig]}
    \cup {[registry |-> {[Name |-> "m", Type |-> "Counter"],
                         [Name |-> "n", Type |-> "Rate"]},
           config |-> ClassicConfig]}

\* the samples a run emits; those of a run of two series are all of value 1
RunSamples ==
    {x \in Samples : /\ x.TimeSeries \in registry
                     /\ Cardinality(registry) > 1 => x.Value = 1}

\* the strings of statistic names and resolver keys, as their characters
Chars ==
    ("min" :> <<"m", "i", "n">>) @@ ("max" :> <<"m", "a", "x">>)
    @@ ("count" :> <<"c", "o", "u", "n", "t">>) @@ ("sum" :> <<"s", "u", "m">>)
    @@ ("foo" :> <<"f", "o", "o">>)
    @@ ("p(95)" :> <<"p", "(", "9", "5", ")">>)
    @@ ("p(9.5)" :> <<"p", "(", "9", ".", "5", ")">>)
    @@ ("p95" :> <<"p", "9", "5">>)

\* the string of a sequence of characters
FromChars(cs) == CHOOSE str \in DOMAIN Chars : Chars[str] = cs

\* strings.HasPrefix, strings.HasSuffix, s[i:j] and strings.ReplaceAll(s, old, "")
\* on characters
HasPrefix(cs, prefix) ==
    Len(cs) >= Len(prefix) /\ SubSeq(cs, 1, Len(prefix)) = prefix
HasSuffix(cs, suffix) ==
    Len(cs) >= Len(suffix) /\ SubSeq(cs, Len(cs) - Len(suffix) + 1, Len(cs)) = suffix
Slice(cs, i, j) == SubSeq(cs, i + 1, j)
ReplaceAll(cs, old) == SelectSeq(cs, LAMBDA c : c # old)

\* the decimal digits
Digit ==
    ("0" :> 0) @@ ("1" :> 1) @@ ("2" :> 2) @@ ("3" :> 3) @@ ("4" :> 4)
    @@ ("5" :> 5) @@ ("6" :> 6) @@ ("7" :> 7) @@ ("8" :> 8) @@ ("9" :> 9)

RECURSIVE IntPart(_, _)
\* the number written by the digits of cs up to its first dot, after acc
IntPart(cs, acc) ==
    IF cs = <<>> \/ Head(cs) = "." THEN acc
    ELSE IntPart(Tail(cs), 10 * acc + Digit[Head(cs)])

\* strconv.ParseFloat on an unsigned decimal: whether cs is one
IsDecimal(cs) ==
    /\ \E k \in 1..Len(cs) : cs[k] \in DOMAIN Digit
    /\ \A k \in 1..Len(cs) : cs[k] \in DOMAIN Digit \cup {"."}
    /\ Len(SelectSeq(cs, LAMBDA c : c = ".")) <= 1

\* the lookup of a percentile: whether stat is p(x) with x a number of 0..100
parsePercentile(stat) ==
    LET cs == Chars[stat]
        x == Slice(cs, 2, Len(cs) - 1)
    IN  /\ HasPrefix(cs, <<"p", "(">>)
        /\ HasSuffix(cs, <<")">>)
        /\ IsDecimal(x)
        /\ \/ IntPart(x, 0) < 100
           \/ /\ IntPart(x, 0) = 100
              /\ \A j, k \in 1..Len(x) : (j < k /\ x[j] = ".") => x[k] = "0"

\* metrics.GetResolversForTrendColumns: the resolvers of the names, or an
\* error when one of them is neither a fixed statistic nor a percentile
GetResolversForTrendColumns(trendColumns) ==
    LET known(stat) == stat \in {"avg", "min", "med", "max", "count"}
                          \/ parsePercentile(stat)
    IN  IF \E i \in 1..Len(trendColumns) : ~known(trendColumns[i])
        THEN [err |-> TRUE, resolvers |-> {}]
        ELSE [err |-> FALSE,
              resolvers |-> {trendColumns[i] : i \in 1..Len(trendColumns)}]

\* the key a resolver is stored under (lines 116-127): p(x) becomes p and x
\* without its dots
StatKey(stat) ==
    LET statKey == Chars[stat]
    IN  IF HasPrefix(statKey, <<"p", "(">>)
        THEN FromChars(<<"p">> \o ReplaceAll(Slice(statKey, 2, Len(statKey) - 1), "."))
        ELSE stat

\* setTrendStatsResolver: the error it returns and the keys of the resolver
\* table it sets
setTrendStatsResolverLenient(trendStats) ==
    LET kept == SelectSeq(trendStats,
                          LAMBDA stat : stat = "sum"
                              \/ ~GetResolversForTrendColumns(<<stat>>).err)
    IN  [err |-> FALSE,
         trendStatsResolver |-> {StatKey(kept[i]) : i \in 1..Len(kept)}]
setTrendStatsResolver(trendStats) ==
    LET hasSum == \E i \in 1..Len(trendStats) : trendStats[i] = "sum"
        trendStatsCopy == SelectSeq(trendStats, LAMBDA stat : stat # "sum")
        r == GetResolversForTrendColumns(trendStatsCopy)
        resolvers == r.resolvers \cup (IF hasSum THEN {"sum"} ELSE {})
    IN  IF r.err THEN [err |-> TRUE, trendStatsResolver |-> {}]
        ELSE [err |-> FALSE,
              trendStatsResolver |-> {StatKey(stat) : stat \in resolvers}]

\* what New makes of a configuration (lines 58-63): the error it returns and
\* the resolver table of the output
NewOutput(cfg) ==
    IF Len(cfg.TrendStats) > 0
    THEN setTrendStatsResolver(cfg.TrendStats)
    ELSE [err |-> FALSE, trendStatsResolver |-> {}]

\* what New returns as its error
ErrorOf(failed) == IF failed THEN "error" ELSE "nil"

\* New: the output as constructed from the configuration of the run r; the
\* periodic flusher is not set before Start
New(r) ==
        /\ registry = r.registry
        /\ config = r.config
        /\ trendStatsResolver = NewOutput(r.config).trendStatsResolver
        /\ newErr = ErrorOf(NewOutput(r.config).err)
        /\ tsdb = <<>>
        /\ buffer = <<>>
        /\ panicked = FALSE
        /\ logger = <<>>
        /\ promTimeSeries = <<>>
        /\ stored = <<>>
        /\ sent = {}
        /\ merged = [id \in r.registry |->
                       [n |-> 0, sum |-> 0, nonzero |-> 0, latest |-> -1]]
        /\ periodicFlusher = <<>>
        /\ stop = FALSE

Init == \E r \in Runs : New(r)

RECURSIVE Join(_)
\* the samples of a list of containers, in arrival order
Join(cs) == IF cs = <<>> THEN <<>> ELSE cs[1] \o Join(SubSeq(cs, 2, Len(cs)))

\* the samples of the series id in a list of samples
Of(id, samples) == SelectSeq(samples, LAMBDA x : x.TimeSeries = id)

\* the number of samples of non-zero value in a list of samples
NonZero(samples) == Len(SelectSeq(samples, LAMBDA x : x.Value # 0))

\* the sum of the values of a list of samples
ValueSum(samples) == SumSeq([k \in 1..Len(samples) |-> samples[k].Value])

\* what the buffer counts for in the bound on the samples it holds
Load(cs) == SumSeq([i \in 1..Len(cs) |-> IF Len(cs[i]) = 0 THEN 1 ELSE Len(cs[i])])

RECURSIVE MergedIn(_)
\* the samples the flushes have drained so far, of the series in S
MergedIn(S) ==
    IF S = {} THEN 0
    ELSE LET id == CHOOSE x \in S : TRUE IN merged[id].n + MergedIn(S \ {id})

RECURSIVE Draining(_)
\* the samples the running flushes have drained and not yet converted
Draining(loops) ==
    IF loops = <<>> THEN 0
    ELSE Len(Join(loops[1].samplesContainers))
         + Draining(SubSeq(loops, 2, Len(loops)))

\* how large a container a producer can still hand over
Room ==
    LET left == MaxSamples - MergedIn(registry) - Draining(periodicFlusher)
                - Len(Join(buffer))
        free == MaxBuffer - Load(buffer)
    IN  IF left < free THEN left ELSE free

\* the sample containers a producer can hand over: zero or more samples of
\* the run
Containers(maxLen) == UNION {[1..n -> RunSamples] : n \in 0..maxLen}

\* SampleBuffer.AddMetricSamples: a producer appends a container (one
\* without samples only to an empty buffer); there is an output only when
\* New returned no error
AddMetricSamples(c) ==
    /\ newErr = "nil"
    /\ ~panicked
    /\ Load(buffer) + Load(<<c>>) <= MaxBuffer
    /\ c = <<>> => buffer = <<>>
    /\ buffer' = Append(buffer, c)
    /\ UNCHANGED <<registry, tsdb, config, trendStatsResolver, panicked, logger,
                   promTimeSeries, stored, sent, merged, periodicFlusher, stop,
                   newErr>>

\* what flush logs
SkipLog == <<"no buffered samples, skip the flushing operation", "flushed">>
SentLog == <<"Converted samples to Prometheus TimeSeries", "flushed">>
ErrorLog == <<"Converted samples to Prometheus TimeSeries",
              "Failed to send the time series data to the endpoint", "flushed">>

\* the calls of client.Store made by a flush that converted pbseries, with
\* what Store returned (line 168)
StoreCallsRetry(pbseries, storeOk) ==
    IF storeOk THEN <<[series |-> pbseries, ok |-> TRUE]>>
    ELSE <<[series |-> pbseries, ok |-> FALSE], [series |-> pbseries, ok |-> FALSE]>>
StoreCalls(pbseries, storeOk) == <<[series |-> pbseries, ok |-> storeOk]>>

\* what flush logs after Store returned
StoreLog(storeOk) == IF storeOk THEN SentLog ELSE ErrorLog

RECURSIVE PointsOf(_)
\* the points of a batch of wire series, each with the labels of its series
PointsOf(records) ==
    IF records = <<>> THEN <<>>
    ELSE [i \in 1..(Len(records[1].Samples) + Len(records[1].Histograms)) |->
            [Labels |-> records[1].Labels,
             Timestamp |-> (records[1].Samples \o records[1].Histograms)[i].Timestamp]]
         \o PointsOf(SubSeq(records, 2, Len(records)))

RECURSIVE PointsStored(_)
\* the points of the calls of Store of a flush
PointsStored(calls) ==
    IF calls = <<>> THEN {}
    ELSE {PointsOf(calls[1].series)[k] : k \in 1..Len(PointsOf(calls[1].series))}
         \cup PointsStored(Tail(calls))

RECURSIVE LatestOf(_, _)
\* the latest millisecond, as a time, among acc and those of the samples
LatestOf(samples, acc) ==
    IF samples = <<>> THEN acc
    ELSE LET t == Millisecond * (samples[1].Time \div Millisecond)
         IN  LatestOf(SubSeq(samples, 2, Len(samples)), IF t > acc THEN t ELSE acc)

\* the samples drained so far, those of the containers cs among them
MergedWith(cs) ==
    [id \in DOMAIN merged |->
        [n |-> merged[id].n + Len(Of(id, Join(cs))),
         sum |-> merged[id].sum + ValueSum(Of(id, Join(cs))),
         nonzero |-> merged[id].nonzero + NonZero(Of(id, Join(cs))),
         latest |-> LatestOf(Of(id, Join(cs)), merged[id].latest)]]

\* flush on a drained buffer that holds containers (lines 164-171): order is
\* the order of the iteration over seen, storeOk what Store returns
FlushSamples(samplesContainers, order, storeOk) ==
    LET st == Aggregate(tsdb, samplesContainers,
                        config.TrendAsNativeHistogram, trendStatsResolver)
        m == MapAll(st.tsdb, order)
    IN  /\ order \in IterationOrders(st.seen)
        /\ tsdb' = st.tsdb
        /\ IF st.panicked \/ m.panic
           THEN /\ panicked' = TRUE
                /\ UNCHANGED <<logger, promTimeSeries, stored, sent, merged>>
           ELSE /\ panicked' = FALSE
                /\ logger' = StoreLog(storeOk)
                /\ promTimeSeries' = m.pbseries
                /\ stored' = StoreCalls(m.pbseries, storeOk)
                /\ sent' = sent \cup PointsStored(stored')
                /\ merged' = MergedWith(samplesContainers)
        /\ UNCHANGED <<config, trendStatsResolver>>

\* flush on a drained buffer that is empty (lines 152-155)
FlushEmptyStore == \E storeOk \in BOOLEAN : FlushSamples(<<>>, <<>>, storeOk)
FlushEmpty ==
    /\ logger' = SkipLog
    /\ UNCHANGED <<tsdb, config, trendStatsResolver, panicked, promTimeSeries,
                   stored, sent, merged>>

\* Output.flush as one step, as the periodic flusher calls it
Flush ==
    /\ newErr = "nil"
    /\ ~panicked
    /\ buffer' = <<>>
    /\ UNCHANGED <<registry, periodicFlusher, stop, newErr>>
    /\ IF Len(buffer) < 1
       THEN FlushEmpty
       ELSE \E storeOk \in BOOLEAN :
              \E order \in IterationOrders(
                     Aggregate(tsdb, buffer, config.TrendAsNativeHistogram,
                               trendStatsResolver).seen) :
                 FlushSamples(buffer, order, storeOk)

Next ==
    \/ \E c \in Containers(Room) : AddMetricSamples(c)
    \/ Flush

Spec == Init /\ [][Next]_vars

\* ------------------------------------------ flush under the periodic flusher
\* the run the output is followed step by step in: one counter series
ConcRuns == {r \in Runs : r.registry = {[Name |-> "m", Type |-> "Counter"]}}

InitConc == \E r \in ConcRuns : New(r)

\* the goroutine of output.NewPeriodicFlusher(d, o.flush): it waits in its
\* select for the ticker or for Stop; samplesContainers and promTimeSeries
\* are the locals of the flush it runs, last whether that flush is the one
\* made on Stop
NewLoop ==
    [pc |-> "select", samplesContainers |-> <<>>, promTimeSeries |-> <<>>,
     last |-> FALSE]

\* Output.Start, which the engine calls once: it sets the periodic flusher
StartTwice ==
    /\ newErr = "nil"
    /\ periodicFlusher = <<>>
    /\ ~stop
    /\ periodicFlusher' = <<NewLoop, NewLoop>>
    /\ UNCHANGED <<registry, buffer, tsdb, config, trendStatsResolver, panicked,
                   logger, promTimeSeries, stored, sent, merged, stop, newErr>>
Start ==
    /\ newErr = "nil"
    /\ periodicFlusher = <<>>
    /\ ~stop
    /\ periodicFlusher' = <<NewLoop>>
    /\ UNCHANGED <<registry, buffer, tsdb, config, trendStatsResolver, panicked,
                   logger, promTimeSeries, stored, sent, merged, stop, newErr>>

\* Output.Stop: it asks the periodic flusher to stop
Stop ==
    /\ periodicFlusher # <<>>
    /\ ~stop
    /\ stop' = TRUE
    /\ UNCHANGED <<registry, buffer, tsdb, config, trendStatsResolver, panicked,
                   logger, promTimeSeries, stored, sent, merged, periodicFlusher,
                   newErr>>

\* where the goroutine goes on after a flush
AfterFlush(last) == IF last THEN "stopped" ELSE "select"

\* the goroutine g leaves its select, on the ticker or (last) on Stop, and
\* flush drains the buffer (lines 151-155)
FlushDrain(g) ==
    /\ ~panicked
    /\ periodicFlusher[g].pc = "select"
    /\ buffer' = <<>>
    /\ \E last \in (IF stop THEN BOOLEAN ELSE {FALSE}) :
          IF Len(buffer) < 1
          THEN /\ logger' = SkipLog
               /\ periodicFlusher' =
                     [periodicFlusher EXCEPT ![g].pc = AfterFlush(last)]
          ELSE /\ logger' = <<>>
               /\ periodicFlusher' =
                     [periodicFlusher EXCEPT
                        ![g] = [pc |-> "drained", samplesContainers |-> buffer,
                                promTimeSeries |-> <<>>, last |-> last]]
    /\ UNCHANGED <<registry, tsdb, config, trendStatsResolver, panicked,
                   promTimeSeries, stored, sent, merged, stop, newErr>>

\* the flush of the goroutine g converts what it drained (lines 164-166)
FlushConvert(g) ==
    /\ ~panicked
    /\ periodicFlusher[g].pc = "drained"
    /\ LET cs == periodicFlusher[g].samplesContainers
           st == Aggregate(tsdb, cs, config.TrendAsNativeHistogram,
                           trendStatsResolver)
       IN  \E order \in IterationOrders(st.seen) :
             LET m == MapAll(st.tsdb, order)
             IN  /\ tsdb' = st.tsdb
                 /\ panicked' = (st.panicked \/ m.panic)
                 /\ promTimeSeries' = m.pbseries
                 /\ merged' = MergedWith(cs)
                 /\ logger' = <<"Converted samples to Prometheus TimeSeries">>
                 /\ periodicFlusher' =
                       [periodicFlusher EXCEPT
                          ![g] = [pc |-> "converted", samplesContainers |-> <<>>,
                                  promTimeSeries |-> m.pbseries, last |-> @.last]]
    /\ UNCHANGED <<registry, buffer, config, trendStatsResolver, stored, sent, stop,
                   newErr>>

\* the flush of the goroutine g calls Store and returns (lines 168-172)
FlushStore(g) ==
    /\ ~panicked
    /\ periodicFlusher[g].pc = "converted"
    /\ \E storeOk \in BOOLEAN :
          /\ stored' = StoreCalls(periodicFlusher[g].promTimeSeries, storeOk)
          /\ logger' = StoreLog(storeOk)
    /\ sent' = sent \cup PointsStored(stored')
    /\ periodicFlusher' =
          [periodicFlusher EXCEPT
             ![g] = [pc |-> AfterFlush(@.last), samplesContainers |-> <<>>,
                     promTimeSeries |-> <<>>, last |-> FALSE]]
    /\ UNCHANGED <<registry, buffer, tsdb, config, trendStatsResolver, panicked,
                   promTimeSeries, merged, stop, newErr>>

NextConc ==
    \/ \E c \in Containers(Room) : AddMetricSamples(c)
    \/ Start
    \/ Stop
    \/ \E g \in DOMAIN periodicFlusher : FlushDrain(g)
    \/ \E g \in DOMAIN periodicFlusher : FlushConvert(g)
    \/ \E g \in DOMAIN periodicFlusher : FlushStore(g)

SpecConc == InitConc /\ [][NextConc]_vars

\* ------------------------------------------------ reading a flush step
\* a step that is a flush of a buffer holding containers, and one that is a
\* flush of an empty buffer (or no step at all)
FlushStep == buffer # <<>> /\ buffer' = <<>>
EmptyFlushStep == buffer = <<>> /\ buffer' = <<>>

\* the samples the next flush drains, and those of the series id
Window == Join(buffer)
Mine(id) == Of(id, Window)

\* the millisecond a time lies in, and the start of that millisecond
Ms(t) == t \div Millisecond
Floor(t) == Millisecond * Ms(t)

\* the wire series of the series id in a batch
RecordsOf(batch, id) == SelectSeq(batch, LAMBDA r : r.Labels.series = id)

RECURSIVE CallPoints(_)
\* the points of all the calls of Store of a flush, in order
CallPoints(calls) ==
    IF calls = <<>> THEN <<>>
    ELSE PointsOf(calls[1].series) \o CallPoints(SubSeq(calls, 2, Len(calls)))

\* the points of the series id in a list of points
PointsFor(id, points) == SelectSeq(points, LAMBDA q : q.Labels.series = id)

\* the kinds whose series are written as one wire series
SimpleKinds == {"Counter", "Gauge", "Rate"}

\* the number of samples and the sum of the values a sink has taken in, as
\* far as the sink tells
SinkN(table, id) ==
    IF id \notin DOMAIN table THEN 0
    ELSE LET m == table[id].Measure
         IN  CASE m.sink = "RateSink" -> m.Total
               [] m.sink = "extendedTrendSink" -> Len(m.Values)
               [] m.sink = "nativeHistogramSink" -> m.Count
               [] OTHER -> 0
SinkSum(table, id) ==
    IF id \notin DOMAIN table THEN 0
    ELSE LET m == table[id].Measure
         IN  CASE m.sink = "CounterSink" -> m.Value
               [] m.sink = "RateSink" -> m.Trues
               [] m.sink = "extendedTrendSink" -> SumSeq(m.Values)
               [] m.sink = "nativeHistogramSink" -> m.Sum
               [] OTHER -> 0

\* ------------------------------------------- runs with an unknown metric kind
\* the runs that emit samples of a series whose kind is none of the four
KindRuns ==
    {[registry |-> {[Name |-> "m", Type |-> OtherType]}, config |-> ClassicConfig],
     [registry |-> {[Name |-> "m", Type |-> "Counter"],
                    [Name |-> "n", Type |-> OtherType]},
      config |-> ClassicConfig]}

InitKinds == \E r \in KindRuns : New(r)

SpecKinds == InitKinds /\ [][Next]_vars

\* ------------------------------------------------- New on a configuration
\* Trend statistics named in one configuration, at most.
MaxStats == 3

\* the names a configuration asks trend statistics by
StatNames == {"min", "sum", "foo", "p(95)", "p(9.5)"}

\* the configurations New is called with
NewConfigs ==
    {[TrendAsNativeHistogram |-> FALSE, TrendStats |-> trendStats] :
        trendStats \in UNION {[1..n -> StatNames] : n \in 0..MaxStats}}

\* before New: a configuration and no output yet
InitNew ==
    \E cfg \in NewConfigs :
        /\ config = cfg
        /\ newErr = "unset"
        /\ registry = {[Name |-> "m", Type |-> "Counter"]}
        /\ trendStatsResolver = {}
        /\ tsdb = <<>>
        /\ buffer = <<>>
        /\ panicked = FALSE
        /\ logger = <<>>
        /\ promTimeSeries = <<>>
        /\ stored = <<>>
        /\ sent = {}
        /\ merged = [id \in {[Name |-> "m", Type |-> "Counter"]} |->
                       [n |-> 0, sum |-> 0, nonzero |-> 0, latest |-> -1]]
        /\ periodicFlusher = <<>>
        /\ stop = FALSE

\* New returns (lines 33-64)
NewCall ==
    /\ newErr = "unset"
    /\ trendStatsResolver' = NewOutput(config).trendStatsResolver
    /\ newErr' = ErrorOf(NewOutput(config).err)
    /\ UNCHANGED <<registry, buffer, tsdb, config, panicked, logger, promTimeSeries,
                   stored, sent, merged, periodicFlusher, stop>>

NextNew == NewCall

SpecNew == InitNew /\ [][NextNew]_vars

\* ------------------------------------------------------------- properties
\* C1: the latest truncated timestamp stored for a series never decreases:
\* not over a flush, and not on any single sample processed against the
\* table, whatever the time of that sample.
LatestNeverDecreases ==
    [][/\ \A id \in DOMAIN tsdb :
             /\ id \in DOMAIN tsdb'
             /\ tsdb'[id].Latest >= tsdb[id].Latest
       /\ \A x \in RunSamples :
             x.TimeSeries \in DOMAIN tsdb =>
                ProcessSample([tsdb |-> tsdb, seen |-> <<>>, panicked |-> FALSE], x,
                              config.TrendAsNativeHistogram, trendStatsResolver)
                   .tsdb[x.TimeSeries].Latest >= tsdb[x.TimeSeries].Latest]_vars

\* the buffer holds a sample older than the stored latest of its series, and
\* the flush that drains it leaves the stored latest as it is
OlderSampleKeepsLatest ==
    \E id \in DOMAIN tsdb :
        /\ \E k \in 1..Len(Mine(id)) : Floor(Mine(id)[k].Time) < tsdb[id].Latest
        /\ ENABLED (Flush /\ tsdb'[id].Latest = tsdb[id].Latest)

\* C2: the batch a flush converts holds wire series of a series if and only
\* if the series was created in the table during the flush or its stored
\* latest increased during the flush; a series whose samples of the flush
\* all lie at or before the stored latest has no wire series in the batch.
EmittedIffAdvanced ==
    [][FlushStep =>
        \A id \in Series :
            LET emitted == RecordsOf(promTimeSeries', id) # <<>>
                created == id \notin DOMAIN tsdb /\ id \in DOMAIN tsdb'
                advanced == /\ id \in DOMAIN tsdb
                            /\ tsdb'[id].Latest > tsdb[id].Latest
            IN  /\ emitted <=> (created \/ advanced)
                /\ (/\ id \in DOMAIN tsdb
                    /\ \A k \in 1..Len(Mine(id)) :
                          Floor(Mine(id)[k].Time) <= tsdb[id].Latest)
                   => ~emitted]_vars

\* the buffer holds samples of a series of the table, none of them later
\* than its stored latest, and the flush that drains them writes nothing
\* for the series
StaleSamplesNotEmitted ==
    \E id \in DOMAIN tsdb :
        /\ Mine(id) # <<>>
        /\ \A k \in 1..Len(Mine(id)) : Floor(Mine(id)[k].Time) <= tsdb[id].Latest
        /\ ENABLED (Flush /\ RecordsOf(promTimeSeries', id) = <<>>)

\* whether a flush drains two or more samples of the series id, all of them
\* in one millisecond
SameMillisecond(id) ==
    /\ Len(Mine(id)) >= 2
    /\ \A k, l \in 1..Len(Mine(id)) : Ms(Mine(id)[k].Time) = Ms(Mine(id)[l].Time)

\* whether a list of points holds one point or more, and no two of one wire
\* series
OnePointEach(points) ==
    /\ points # <<>>
    /\ \A a, b \in 1..Len(points) : points[a].Labels = points[b].Labels => a = b

\* C3 as stated: when a flush drains two or more samples of a series that all
\* lie in one millisecond, the batch holds exactly one point (or one
\* histogram) for each wire series of that series.
AlwaysOnePoint ==
    [][FlushStep =>
        \A id \in Series :
            SameMillisecond(id) =>
                OnePointEach(PointsOf(RecordsOf(promTimeSeries', id)))]_vars

\* C3 as amended: when a flush drains two or more samples of a series that
\* all lie in one millisecond, the batch never holds two points of one wire
\* series; it holds exactly one point (or one histogram) for each wire series
\* of that series, at that millisecond, when the series is new to the table
\* or the millisecond is later than the stored latest, and none otherwise.
OnePointWhenAdvanced ==
    [][FlushStep =>
        \A id \in Series :
            SameMillisecond(id) =>
                LET points == PointsOf(RecordsOf(promTimeSeries', id))
                    fresh == \/ id \notin DOMAIN tsdb
                             \/ Floor(Mine(id)[1].Time) > tsdb[id].Latest
                IN  /\ \A a, b \in 1..Len(points) :
                          points[a].Labels = points[b].Labels => a = b
                    /\ fresh => /\ points # <<>>
                                /\ \A a \in 1..Len(points) :
                                      points[a].Timestamp = Ms(Mine(id)[1].Time)
                    /\ ~fresh => points = <<>>]_vars

\* the buffer holds two samples of a new series, of different times in one
\* millisecond, and the flush that drains them writes one point for it
SameMillisecondOnePoint ==
    \E id \in registry :
        /\ id \notin DOMAIN tsdb
        /\ SameMillisecond(id)
        /\ \E k, l \in 1..Len(Mine(id)) : Mine(id)[k].Time # Mine(id)[l].Time
        /\ ENABLED (Flush /\ Len(PointsOf(RecordsOf(promTimeSeries', id))) = 1)

\* C4: for each counter, gauge or rate series, a flush hands at most one
\* point to Store, and its timestamp is greater than that of every point of
\* the series handed to Store by an earlier flush.
TimestampsStrictlyIncrease ==
    [][FlushStep =>
        \A id \in Series :
            id.Type \in SimpleKinds =>
                LET points == PointsFor(id, CallPoints(stored'))
                IN  /\ Len(points) <= 1
                    /\ \A a \in 1..Len(points) : \A q \in sent :
                          q.Labels.series = id => q.Timestamp < points[a].Timestamp]_vars

\* a counter, gauge or rate series whose point of the latest flush follows a
\* point of an earlier flush
LaterPointSent ==
    \E id \in registry :
        /\ id.Type \in SimpleKinds
        /\ \E a \in 1..Len(PointsFor(id, CallPoints(stored))) : \E q \in sent :
              /\ q.Labels.series = id
              /\ q.Timestamp < PointsFor(id, CallPoints(stored))[a].Timestamp

\* C5: a flush merges every sample it drains into the sink of its series
\* exactly once, whatever its time: the number of samples a rate or trend
\* sink has taken in grows by the number of samples of the series drained,
\* the sum of a counter, rate or trend sink by what they add up to, a gauge
\* holds the value of the last of them, and the sink of a series without
\* samples in the flush is left alone.
EverySampleMergedOnce ==
    [][FlushStep =>
        \A id \in registry :
            /\ id.Type \in {"Rate", "Trend"} =>
                  SinkN(tsdb', id) = SinkN(tsdb, id) + Len(Mine(id))
            /\ id.Type \in {"Counter", "Trend"} =>
                  SinkSum(tsdb', id) = SinkSum(tsdb, id) + ValueSum(Mine(id))
            /\ id.Type = "Rate" =>
                  SinkSum(tsdb', id) = SinkSum(tsdb, id) + NonZero(Mine(id))
            /\ Mine(id) # <<>> => id \in DOMAIN tsdb'
            /\ (id.Type = "Gauge" /\ Mine(id) # <<>> /\ id \in DOMAIN tsdb') =>
                  tsdb'[id].Measure.Value = Mine(id)[Len(Mine(id))].Value
            /\ Mine(id) = <<>> =>
                  /\ id \in DOMAIN tsdb' <=> id \in DOMAIN tsdb
                  /\ id \in DOMAIN tsdb => tsdb'[id] = tsdb[id]]_vars

\* the buffer holds two containers with samples of a series of the table,
\* one of them older than its stored latest, and the flush that drains them
\* merges them all
StaleSamplesMerged ==
    \E id \in DOMAIN tsdb :
        /\ Len(buffer) >= 2
        /\ Len(Mine(id)) >= 2
        /\ \E k \in 1..Len(Mine(id)) : Floor(Mine(id)[k].Time) < tsdb[id].Latest
        /\ ENABLED (Flush /\ SinkSum(tsdb', id) = SinkSum(tsdb, id) + 2)

\* C6: the value written for a counter series is the sum of the values of
\* all the samples of the series drained since the start.
CounterIsCumulative ==
    \A id \in registry :
        id.Type = "Counter" =>
            \A a \in 1..Len(RecordsOf(promTimeSeries, id)) :
                RecordsOf(promTimeSeries, id)[a].Samples[1].Value = merged[id].sum

\* a counter written by a second flush, with the samples of both flushes in
\* its value
CounterOverTwoFlushes ==
    \E id \in registry :
        /\ id.Type = "Counter"
        /\ \E a \in 1..Len(RecordsOf(promTimeSeries, id)) :
              LET r == RecordsOf(promTimeSeries, id)[a]
              IN  /\ r.Samples[1].Value >= 2
                  /\ \E q \in sent : /\ q.Labels.series = id
                                     /\ q.Timestamp < r.Samples[1].Timestamp

\* C7: a flush that drains an empty buffer calls Store not at all and leaves
\* the table as it is; a flush that drains a buffer holding containers calls
\* Store exactly once, with the batch it converted, also when that batch is
\* empty.
EmptyFlushSkipsStore ==
    [][/\ EmptyFlushStep =>
            /\ tsdb' = tsdb
            /\ stored' = stored
            /\ sent' = sent
            /\ promTimeSeries' = promTimeSeries
       /\ FlushStep =>
            /\ Len(stored') = 1
            /\ stored'[1].series = promTimeSeries']_vars

\* an empty flush after a flush that called Store with an empty batch
EmptyBatchStored ==
    /\ logger = SkipLog
    /\ tsdb # <<>>
    /\ Len(stored) = 1
    /\ stored[1].series = <<>>

\* the value of the wire series written for a counter, gauge or rate series
\* by a flush
Emitted(batch, id) == RecordsOf(batch, id)[1].Samples[1].Value

\* C8 as stated: the value a flush writes for a gauge is the value of the
\* last sample of the series it drained, the value it writes for a rate is
\* non-zero samples over all samples of the series among those it drained,
\* and the value it writes for a counter is the sum over all samples of the
\* series drained since the start.
RateOfLatestWindow ==
    [][FlushStep =>
        \A id \in registry :
            RecordsOf(promTimeSeries', id) # <<>> =>
                LET v == Emitted(promTimeSeries', id)
                IN  /\ id.Type = "Gauge" => v = Mine(id)[Len(Mine(id))].Value
                    /\ id.Type = "Rate" =>
                          v[1] * Len(Mine(id)) = NonZero(Mine(id)) * v[2]
                    /\ id.Type = "Counter" => v = merged'[id].sum]_vars

\* C8 as amended: the value a flush writes for a gauge is the value of the
\* last sample of the series it drained; the value it writes for a rate is
\* non-zero samples over all samples of the series drained since the start,
\* and the value it writes for a counter is the sum over all samples of the
\* series drained since the start.
RateIsCumulative ==
    [][FlushStep =>
        \A id \in registry :
            RecordsOf(promTimeSeries', id) # <<>> =>
                LET v == Emitted(promTimeSeries', id)
                IN  /\ id.Type = "Gauge" => v = Mine(id)[Len(Mine(id))].Value
                    /\ id.Type = "Rate" =>
                          /\ v[2] > 0
                          /\ v[1] * merged'[id].n = merged'[id].nonzero * v[2]
                    /\ id.Type = "Counter" => v = merged'[id].sum]_vars

\* a rate series of the table whose next flush writes a value that is not
\* the rate of the samples that flush drains
RateOverTwoFlushes ==
    \E id \in DOMAIN tsdb :
        /\ id.Type = "Rate"
        /\ Mine(id) # <<>>
        /\ ENABLED (/\ Flush
                    /\ RecordsOf(promTimeSeries', id) # <<>>
                    /\ Emitted(promTimeSeries', id)[1] * Len(Mine(id))
                          # NonZero(Mine(id)) * Emitted(promTimeSeries', id)[2])

\* C9: a flush whose call of Store fails logs the error and does not call
\* Store again; whatever Store returns, the flush leaves the process
\* running, and no point it hands to Store was handed to Store by an earlier
\* flush, failed or not.
FailedBatchNeverResent ==
    [][FlushStep =>
        /\ ~panicked'
        /\ Len(stored') = 1
        /\ logger' = IF stored'[1].ok THEN SentLog ELSE ErrorLog
        /\ \A a \in 1..Len(CallPoints(stored')) : CallPoints(stored')[a] \notin sent]_vars

\* after a flush whose call of Store failed, the next flush writes points
\* and its call of Store succeeds
FlushAfterFailedStore ==
    /\ logger = ErrorLog
    /\ Len(stored) = 1
    /\ ~stored[1].ok
    /\ stored[1].series # <<>>
    /\ ENABLED (Flush /\ logger' = SentLog /\ promTimeSeries' # <<>>)

\* the goroutines that are inside flush
Flushing ==
    {g \in DOMAIN periodicFlusher : periodicFlusher[g].pc \in {"drained", "converted"}}

Accepted(stat) == ~GetResolversForTrendColumns(<<stat>>).err

\* the trend statistics the configuration asks for
Requested == {config.TrendStats[i] : i \in 1..Len(config.TrendStats)}

\* C11: when the configured trend statistics hold a name that is neither sum
\* nor accepted by the resolver lookup, New returns an error and there is no
\* output to start, to hand samples to or to flush; when every name is sum
\* or accepted by the lookup, New returns no error.
UnknownStatFailsNew ==
    newErr # "unset" =>
        /\ (\E stat \in Requested : stat # "sum" /\ ~Accepted(stat)) =>
              /\ newErr = "error"
              /\ ~ENABLED Flush
              /\ ~ENABLED Start
              /\ ~ENABLED (\E c \in Containers(Room) : AddMetricSamples(c))
        /\ (\A stat \in Requested : stat = "sum" \/ Accepted(stat)) =>
              /\ newErr = "nil"
              /\ ENABLED Flush

\* New has returned an error on a configuration that asks for sum and for a
\* name the lookup does not accept
NewFailedOnUnknownStat ==
    /\ newErr = "error"
    /\ "sum" \in Requested
    /\ \E stat \in Requested : stat # "sum" /\ ~Accepted(stat)

\* C12: when New returns no error on a list of distinct names of trend
\* statistics, the resolver table holds as many keys as names were asked for.
OneKeyPerStat ==
    (/\ newErr = "nil"
     /\ Cardinality(Requested) = Len(config.TrendStats)) =>
        Cardinality(trendStatsResolver) = Len(config.TrendStats)

\* the orders a list of samples can arrive in
ArrivalOrders(samples) ==
    {[i \in 1..Len(samples) |-> samples[p[i]]] :
        p \in {q \in [1..Len(samples) -> 1..Len(samples)] :
                 \A i, j \in 1..Len(samples) : q[i] = q[j] => i = j}}

\* the sink of the series id once a flush has merged samples into the table
SinkAfter(samples, id) ==
    Aggregate(tsdb, <<samples>>, config.TrendAsNativeHistogram, trendStatsResolver)
        .tsdb[id].Measure

\* C13: whatever the order in which the buffered samples of a series arrive,
\* the flush leaves the same counter sink and the same rate sink, and it
\* leaves a gauge sink holding the value of the sample that arrived last,
\* whatever the time of that sample.
MergeOrderIndependent ==
    \A id \in registry :
        \A p \in ArrivalOrders(Mine(id)) :
            /\ (id.Type \in {"Counter", "Rate"} /\ p # <<>>) =>
                  SinkAfter(p, id) = SinkAfter(Mine(id), id)
            /\ (id.Type = "Gauge" /\ p # <<>>) =>
                  SinkAfter(p, id).Value = p[Len(p)].Value

\* the buffer holds two samples of a counter or rate series, of different
\* values, the later one first
LaterSampleFirst ==
    \E id \in registry :
        /\ id.Type \in {"Counter", "Rate"}
        /\ Len(Mine(id)) >= 2
        /\ Mine(id)[1].Value # Mine(id)[2].Value
        /\ Floor(Mine(id)[1].Time) > Floor(Mine(id)[2].Time)

\* the times of the buffered samples
WindowTimes == {Window[k].Time : k \in 1..Len(Window)}

\* C14: truncating the time of a sample to the millisecond a second time
\* changes nothing, and of two sample times the earlier one never truncates
\* to a later time than the other.
TruncateIdempotentMonotone ==
    \A t1, t2 \in WindowTimes :
        /\ Truncate(Truncate(t1, Millisecond), Millisecond) = Truncate(t1, Millisecond)
        /\ t1 <= t2 => Truncate(t1, Millisecond) <= Truncate(t2, Millisecond)

\* the buffer holds a sample inside a millisecond and one of a later
\* millisecond
TimesAcrossMilliseconds ==
    \E t1, t2 \in WindowTimes :
        /\ t1 < t2
        /\ Floor(t1) # t1
        /\ Floor(t1) < Floor(t2)

\* C15: a flush that drains a sample of a series whose kind is none of
\* Counter, Gauge, Rate and Trend panics: the table gets no entry for that
\* series and the flush converts nothing and does not call Store. No such
\* series is ever in the table.
UnknownKindPanics ==
    [][/\ \A id \in DOMAIN tsdb' : id.Type \in MetricTypes
       /\ FlushStep =>
            \A id \in registry :
                (id.Type \notin MetricTypes /\ Mine(id) # <<>>) =>
                    /\ panicked'
                    /\ id \notin DOMAIN tsdb'
                    /\ promTimeSeries' = promTimeSeries
                    /\ stored' = stored
                    /\ sent' = sent]_vars

\* a flush has panicked on a series of unknown kind after an earlier flush
\* had filled the table and called Store
PanickedOnUnknownKind ==
    /\ panicked
    /\ tsdb # <<>>
    /\ stored # <<>>
    /\ \E id \in registry : id.Type \notin MetricTypes /\ id \notin DOMAIN tsdb

\* the sinks an entry of a series of each kind may hold
SinksOf(type) ==
    CASE type = "Counter" -> {"CounterSink"}
      [] type = "Gauge" -> {"GaugeSink"}
      [] type = "Rate" -> {"RateSink"}
      [] type = "Trend" -> {"extendedTrendSink", "nativeHistogramSink"}
      [] OTHER -> {}

\* C16: every entry of the table is filed under its own series and holds a
\* sink of the kind of that series, and the encoder does not panic on any
\* entry.
SinkMatchesKind ==
    \A id \in DOMAIN tsdb :
        /\ tsdb[id].TimeSeries = id
        /\ tsdb[id].Measure.sink \in SinksOf(id.Type)
        /\ ~MapPrompb(tsdb[id]).panic

\* the table holds a counter and a rate series and the last flush has
\* encoded both
TwoKindsEncoded ==
    /\ \E id \in DOMAIN tsdb : id.Type = "Counter"
    /\ \E id \in DOMAIN tsdb : id.Type = "Rate"
    /\ Len(promTimeSeries) = 2

\* whether a step creates the entry of the series id or advances its latest
\* time
AdvancedIn(id) ==
    /\ id \in DOMAIN tsdb'
    /\ id \in DOMAIN tsdb => tsdb'[id].Latest > tsdb[id].Latest

\* C17: for every counter, gauge or rate series whose entry a flush creates
\* or advances, the batch holds exactly one wire series, with exactly one
\* sample and no histogram; the timestamp of the sample is the latest time
\* the table holds for the series after the flush, in milliseconds, and its
\* value is that of the sink after the flush has merged all it drained.
OnePointAtLatest ==
    [][FlushStep =>
        \A id \in registry :
            (id.Type \in SimpleKinds /\ AdvancedIn(id)) =>
                LET recs == RecordsOf(promTimeSeries', id)
                    m == tsdb'[id].Measure
                IN  /\ Len(recs) = 1
                    /\ Len(recs[1].Samples) = 1
                    /\ recs[1].Histograms = <<>>
                    /\ recs[1].Samples[1].Timestamp = Ms(tsdb'[id].Latest)
                    /\ id.Type \in {"Counter", "Gauge"} =>
                          recs[1].Samples[1].Value = m.Value
                    /\ id.Type = "Rate" =>
                          recs[1].Samples[1].Value = <<m.Trues, m.Total>>]_vars

\* the buffer holds two samples of a new counter, gauge or rate series, the
\* second no later than the first and of another value, and the flush that
\* drains them writes the value the sink holds after both
ValueAfterLastSample ==
    \E id \in registry :
        /\ id.Type \in SimpleKinds
        /\ id \notin DOMAIN tsdb
        /\ Len(Mine(id)) >= 2
        /\ Floor(Mine(id)[2].Time) <= Floor(Mine(id)[1].Time)
        /\ Mine(id)[2].Value # Mine(id)[1].Value
        /\ ENABLED (/\ Flush
                    /\ Len(RecordsOf(promTimeSeries', id)) = 1
                    /\ id.Type \in {"Counter", "Gauge"} =>
                          Emitted(promTimeSeries', id) = tsdb'[id].Measure.Value)

\* C18: while no flush has panicked, the latest time the table holds for a
\* series is the latest millisecond among all the samples of the series
\* drained so far, and a series none of whose samples was drained has no
\* entry.
LatestIsMaximum ==
    ~panicked =>
        \A id \in registry :
            /\ id \in DOMAIN tsdb <=> merged[id].n > 0
            /\ id \in DOMAIN tsdb => tsdb[id].Latest = merged[id].latest

\* the buffer holds samples of a new series, a later one before an earlier
\* one, and the flush that drains them stores the time of the later one
EarlierSampleLast ==
    \E id \in registry :
        /\ id \notin DOMAIN tsdb
        /\ Len(Mine(id)) >= 2
        /\ Floor(Mine(id)[1].Time) > Floor(Mine(id)[2].Time)
        /\ ENABLED (Flush /\ tsdb'[id].Latest = Floor(Mine(id)[1].Time))

\* C19: every series a flush writes wire series for has had a sample merged
\* into its sink by the end of that flush: one of its samples was drained,
\* a trend sink holds one value or more, and a rate sink has a total above 0,
\* so that the rate written is its trues over its total.
EncodedSinkNotEmpty ==
    [][FlushStep =>
        \A id \in registry :
            RecordsOf(promTimeSeries', id) # <<>> =>
                /\ id \in DOMAIN tsdb'
                /\ merged'[id].n > 0
                /\ id.Type \in {"Rate", "Trend"} => SinkN(tsdb', id) > 0
                /\ id.Type = "Rate" =>
                      /\ tsdb'[id].Measure.Total > 0
                      /\ Emitted(promTimeSeries', id)
                            = <<tsdb'[id].Measure.Trues, tsdb'[id].Measure.Total>>]_vars

\* a rate series written after a single sample, of value 0
RateOfOneSample ==
    \E id \in DOMAIN tsdb :
        /\ id.Type = "Rate"
        /\ tsdb[id].Measure.Total = 1
        /\ tsdb[id].Measure.Trues = 0
        /\ RecordsOf(promTimeSeries, id) # <<>>

====
